---- MODULE Spec2Model ----
(***************************************************************************)
(* coin_flip_simulation (src/src/lib.rs): the library's public operations  *)
(* run, get_all_outcomes, get_num_outcomes and EmpiricalResult::expected.  *)
(*                                                                         *)
(* A String is a sequence over {"H", "T"}.  usize arithmetic keeps its     *)
(* width: base.pow panics on overflow when the build has overflow checks   *)
(* (debug profile) and wraps modulo 2^UsizeBits when it has none (release  *)
(* profile); `as u32` truncates modulo 2^U32Bits in every build; integer   *)
(* division by zero panics in every build; f64 division never panics.      *)
(* The widths are scaled down, keeping the order of a 64-bit target:       *)
(* U32Bits < UsizeBits < 2^U32Bits (there 32 < 64 < 2^32).                 *)
(***************************************************************************)
EXTENDS Integers, Sequences, FiniteSets, TLC

\* ------------------------------------------------------------------ bounds
\* scaled width of usize: the smallest that holds the 8000 iterations of the
\* documented example
UsizeBits == 13
\* scaled width of u32
U32Bits == 4
\* flips per iteration given to run
MaxFlips == 3
\* iterations given to run
MaxIter == 3
\* flips per iteration given to get_all_outcomes / get_num_outcomes
MaxEnumFlips == 6

\* ------------------------------------------------------------ arithmetic
RECURSIVE Pow2(_)
\* the mathematical 2^n
Pow2(n) == IF n = 0 THEN 1 ELSE 2 * Pow2(n - 1)

\* number of values of a usize
UsizeModulus == Pow2(UsizeBits)

\* `x as u32` for a usize x
as_u32(x) == x % Pow2(U32Bits)

RECURSIVE pow(_, _)
\* usize::pow(base, exp): the wrapped value and whether a multiplication
\* overflowed
pow(base, exp) ==
    IF exp = 0 THEN [val |-> 1, ovf |-> FALSE]
    ELSE LET r == pow(base, exp - 1)
             prod == r.val * base
         IN  [val |-> prod % UsizeModulus,
              ovf |-> r.ovf \/ prod >= UsizeModulus]

\* the outcome of base.pow(exp) in a build: a value or an overflow panic
checked_pow(base, exp, checks) ==
    LET r == pow(base, exp)
    IN  IF checks /\ r.ovf THEN [err |-> "overflow", val |-> 0]
        ELSE [err |-> "none", val |-> r.val]

RECURSIVE gcd(_, _)
gcd(a, b) == IF b = 0 THEN a ELSE gcd(b, a % b)

\* (a as f64) / (b as f64): an exact quotient in lowest terms, NaN for 0/0,
\* infinity for a/0
f64_div(a, b) ==
    IF b = 0
    THEN IF a = 0 THEN [kind |-> "NaN", num |-> 0, den |-> 0]
                  ELSE [kind |-> "inf", num |-> 0, den |-> 0]
    ELSE [kind |-> "num", num |-> a \div gcd(a, b), den |-> b \div gcd(a, b)]

\* ------------------------------------------------------------------ Coin
Coin == {"Heads", "Tails"}

\* impl Display for Coin
to_string(c) == IF c = "Heads" THEN "H" ELSE "T"

\* Coin::flip on a random bool
flip(b) == IF b THEN "Heads" ELSE "Tails"

\* ------------------------------------------------------- get_num_outcomes
\* mutant: base * flips_per_iteration in place of base.pow(flips_per_iteration)
get_num_outcomes_product(flips_per_iteration, checks) ==
    [err |-> "none", val |-> (2 * as_u32(flips_per_iteration)) % UsizeModulus]

get_num_outcomes(flips_per_iteration, checks) ==
    checked_pow(2, as_u32(flips_per_iteration), checks)

\* ------------------------------------------------------- get_all_outcomes
\* mutant: the two symbols exchanged
outcome_symbol_swapped(i, d) == IF (i \div d) % 2 = 0 THEN "T" ELSE "H"

\* the symbol pushed for index i with divisor d
outcome_symbol(i, d) == IF (i \div d) % 2 = 0 THEN "H" ELSE "T"

\* mutant: base.pow(j - 1), the least significant position first
divisor_lsb_first(num_outcomes, j, checks) ==
    LET p == checked_pow(2, as_u32(j - 1), checks)
    IN  IF p.err # "none" THEN [err |-> p.err, val |-> 0]
        ELSE [err |-> "none", val |-> p.val]

\* the divisor of position j: num_outcomes / base.pow(j as u32)
divisor(num_outcomes, j, checks) ==
    LET p == checked_pow(2, as_u32(j), checks)
    IN  IF p.err # "none" THEN [err |-> p.err, val |-> 0]
        ELSE IF p.val = 0 THEN [err |-> "div_by_zero", val |-> 0]
        ELSE [err |-> "none", val |-> num_outcomes \div p.val]

RECURSIVE outcome_from(_, _, _, _, _, _)
\* the inner loop of get_all_outcomes from position j on, `outcome` built so
\* far: the finished string or the first panic
outcome_from(i, j, outcome, num_outcomes, flips_per_iteration, checks) ==
    IF j > flips_per_iteration THEN [err |-> "none", val |-> outcome]
    ELSE LET d == divisor(num_outcomes, j, checks)
         IN  IF d.err # "none" THEN [err |-> d.err, val |-> <<>>]
             ELSE IF d.val = 0 THEN [err |-> "div_by_zero", val |-> <<>>]
             ELSE outcome_from(i, j + 1,
                               Append(outcome, outcome_symbol(i, d.val)),
                               num_outcomes, flips_per_iteration, checks)

\* get_all_outcomes: the vector of outcomes or the first panic.  The panics
\* of the inner loop do not depend on i, so the first one is that of i = 0.
get_all_outcomes(flips_per_iteration, checks) ==
    LET n == get_num_outcomes(flips_per_iteration, checks)
    IN  IF n.err # "none" THEN [err |-> n.err, val |-> <<>>]
        ELSE IF n.val = 0 THEN [err |-> "none", val |-> <<>>]
        ELSE LET first == outcome_from(0, 1, <<>>, n.val,
                                       flips_per_iteration, checks)
             IN  IF first.err # "none" THEN [err |-> first.err, val |-> <<>>]
                 ELSE [err |-> "none",
                       val |-> [x \in 1..n.val |->
                                  outcome_from(x - 1, 1, <<>>, n.val,
                                               flips_per_iteration,
                                               checks).val]]

\* -------------------------------------------------------- EmpiricalResult
EmpiricalResult_new(count, iters) ==
    [count |-> count, probability |-> f64_div(count, iters)]

\* mutant: the closed form 1 / 2^k as the expected probability
EmpiricalResult_expected_closed_form(flips_per_iteration, iters, checks) ==
    LET n == get_num_outcomes(flips_per_iteration, checks)
    IN  IF n.err # "none" THEN [err |-> n.err, val |-> EmpiricalResult_new(0, 0)]
        ELSE IF n.val = 0
             THEN [err |-> "div_by_zero", val |-> EmpiricalResult_new(0, 0)]
        ELSE [err |-> "none",
              val |-> [count |-> iters \div n.val,
                       probability |-> f64_div(1, n.val)]]

EmpiricalResult_expected(flips_per_iteration, iters, checks) ==
    LET n == get_num_outcomes(flips_per_iteration, checks)
    IN  IF n.err # "none" THEN [err |-> n.err, val |-> EmpiricalResult_new(0, 0)]
        ELSE IF n.val = 0
             THEN [err |-> "div_by_zero", val |-> EmpiricalResult_new(0, 0)]
        ELSE [err |-> "none",
              val |-> EmpiricalResult_new(iters \div n.val, iters)]

\* ---------------------------------------------------------- BTreeMap keys
byte(ch) == IF ch = "H" THEN 72 ELSE 84

RECURSIVE str_less(_, _)
\* Ord for String: bytewise lexicographic, a proper prefix first
str_less(a, b) ==
    IF b = <<>> THEN FALSE
    ELSE IF a = <<>> THEN TRUE
    ELSE IF byte(Head(a)) # byte(Head(b)) THEN byte(Head(a)) < byte(Head(b))
    ELSE str_less(Tail(a), Tail(b))

\* seq is the sequence of keys a BTreeMap yields when iterated: each key
\* once, in ascending order
iteration_order(map, seq) ==
    /\ Len(seq) = Cardinality(DOMAIN map)
    /\ {seq[x] : x \in DOMAIN seq} = DOMAIN map
    /\ \A x \in 1..(Len(seq) - 1) : str_less(seq[x], seq[x + 1])

\* mutant: BTreeMap::new(), no outcome seeded
seed_none(outs) == <<>>

\* the map collected from the outcomes, each with count 0
seed(outs) == [o \in {outs[x] : x \in DOMAIN outs} |-> 0]

\* mutant: results.insert(flips, 1)
entry_insert_one(map, key) ==
    [o \in DOMAIN map \cup {key} |-> IF o = key THEN 1 ELSE map[o]]

\* *results.entry(flips).or_insert(0) += 1
entry_add_one(map, key) ==
    IF key \in DOMAIN map
    THEN [map EXCEPT ![key] = @ + 1]
    ELSE [o \in DOMAIN map \cup {key} |-> IF o = key THEN 1 ELSE map[o]]

\* the tally converted to EmpiricalResults
convert(map, iters) ==
    [o \in DOMAIN map |-> EmpiricalResult_new(map[o], iters)]

RECURSIVE sum_counts(_, _)
\* the sum of map[o].count over the keys in S
sum_counts(map, S) ==
    IF S = {} THEN 0
    ELSE LET o == CHOOSE x \in S : TRUE
         IN  map[o].count + sum_counts(map, S \ {o})

\* ----------------------------------------------------------------- state
VARIABLES
    overflow_checks,     \* the build panics on integer overflow
    op,                  \* the operation called
    flips_per_iteration, \* its arguments
    iterations,
    pc,                  \* where the call is
    panic,               \* the panic that ended it
    num_outcomes,        \* value returned by get_num_outcomes
    outcomes,            \* run's `outcomes` / value returned by get_all_outcomes
    results,             \* run's tally BTreeMap<String, usize>
    t,                   \* trials finished
    flips,               \* the String of the trial in progress
    draws,               \* calls of Coin::flip so far
    expected,            \* CoinFlipResult.expected / value of expected()
    converted            \* CoinFlipResult.results

vars == <<overflow_checks, op, flips_per_iteration, iterations, pc, panic,
          num_outcomes, outcomes, results, t, flips, draws, expected,
          converted>>

NoResult == EmpiricalResult_new(0, 0)

\* flips_per_iteration whose 2^k does not fit a usize
OverflowFlips == {UsizeBits, Pow2(U32Bits), Pow2(U32Bits) + 1}

\* iterations run with such a flips_per_iteration
OverflowIters == {0, 1}

\* the documented example: run(3, 8000)
DocFlips == 3
DocIters == 8000

Init ==
    /\ overflow_checks \in BOOLEAN
    /\ op = "none"
    /\ flips_per_iteration = 0
    /\ iterations = 0
    /\ pc = "idle"
    /\ panic = "none"
    /\ num_outcomes = 0
    /\ outcomes = <<>>
    /\ results = <<>>
    /\ t = 0
    /\ flips = <<>>
    /\ draws = 0
    /\ expected = NoResult
    /\ converted = <<>>

\* get_num_outcomes(k)
CallGetNumOutcomes(k) ==
    /\ pc = "idle"
    /\ LET n == get_num_outcomes(k, overflow_checks)
       IN  /\ panic' = n.err
           /\ num_outcomes' = n.val
           /\ pc' = IF n.err = "none" THEN "done" ELSE "panic"
    /\ op' = "get_num_outcomes"
    /\ flips_per_iteration' = k
    /\ UNCHANGED <<overflow_checks, iterations, outcomes, results, t, flips,
                   draws, expected, converted>>

\* get_all_outcomes(k)
CallGetAllOutcomes(k) ==
    /\ pc = "idle"
    /\ LET r == get_all_outcomes(k, overflow_checks)
       IN  /\ panic' = r.err
           /\ outcomes' = r.val
           /\ pc' = IF r.err = "none" THEN "done" ELSE "panic"
    /\ op' = "get_all_outcomes"
    /\ flips_per_iteration' = k
    /\ UNCHANGED <<overflow_checks, iterations, num_outcomes, results, t,
                   flips, draws, expected, converted>>

\* EmpiricalResult::expected(k, n)
CallExpected(k, n) ==
    /\ pc = "idle"
    /\ LET e == EmpiricalResult_expected(k, n, overflow_checks)
       IN  /\ panic' = e.err
           /\ expected' = e.val
           /\ pc' = IF e.err = "none" THEN "done" ELSE "panic"
    /\ op' = "expected"
    /\ flips_per_iteration' = k
    /\ iterations' = n
    /\ UNCHANGED <<overflow_checks, num_outcomes, outcomes, results, t, flips,
                   draws, converted>>

\* run(k, n), lines 24-28: the outcomes and the seeded tally
CallRun(k, n) ==
    /\ pc = "idle"
    /\ LET r == get_all_outcomes(k, overflow_checks)
       IN  /\ panic' = r.err
           /\ outcomes' = r.val
           /\ results' = seed(r.val)
           /\ pc' = IF r.err = "none" THEN "trials" ELSE "panic"
    /\ op' = "run"
    /\ flips_per_iteration' = k
    /\ iterations' = n
    /\ UNCHANGED <<overflow_checks, num_outcomes, t, flips, draws, expected,
                   converted>>

\* run, lines 30-31: the next iteration of the outer loop starts
BeginTrial ==
    /\ pc = "trials"
    /\ t < iterations
    /\ flips' = <<>>
    /\ pc' = "flipping"
    /\ UNCHANGED <<overflow_checks, op, flips_per_iteration, iterations, panic,
                   num_outcomes, outcomes, results, t, draws, expected,
                   converted>>

\* run, lines 32-34: one coin draw
Flip(b) ==
    /\ pc = "flipping"
    /\ Len(flips) < flips_per_iteration
    /\ flips' = Append(flips, to_string(flip(b)))
    /\ draws' = draws + 1
    /\ UNCHANGED <<overflow_checks, op, flips_per_iteration, iterations, pc,
                   panic, num_outcomes, outcomes, results, t, expected,
                   converted>>

\* run, line 35: the trial is tallied
Tally ==
    /\ pc = "flipping"
    /\ Len(flips) = flips_per_iteration
    /\ results' = entry_add_one(results, flips)
    /\ t' = t + 1
    /\ pc' = "trials"
    /\ UNCHANGED <<overflow_checks, op, flips_per_iteration, iterations, panic,
                   num_outcomes, outcomes, flips, draws, expected, converted>>

\* run, lines 38-43: the loop is over, the tally becomes EmpiricalResults
Convert ==
    /\ pc = "trials"
    /\ t >= iterations
    /\ converted' = convert(results, iterations)
    /\ pc' = "expected"
    /\ UNCHANGED <<overflow_checks, op, flips_per_iteration, iterations, panic,
                   num_outcomes, outcomes, results, t, flips, draws, expected>>

\* run, lines 45-46: the expected result, and the CoinFlipResult is returned
Return ==
    /\ pc = "expected"
    /\ LET e == EmpiricalResult_expected(flips_per_iteration, iterations,
                                         overflow_checks)
       IN  /\ panic' = e.err
           /\ expected' = e.val
           /\ pc' = IF e.err = "none" THEN "done" ELSE "panic"
    /\ UNCHANGED <<overflow_checks, op, flips_per_iteration, iterations,
                   num_outcomes, outcomes, results, t, flips, draws, converted>>

Next ==
    \/ \E k \in (0..MaxEnumFlips) \cup OverflowFlips : CallGetNumOutcomes(k)
    \/ \E k \in (0..MaxEnumFlips) \cup OverflowFlips : CallGetAllOutcomes(k)
    \/ \E k \in (0..MaxFlips) \cup OverflowFlips,
          n \in (0..MaxIter) \cup {DocIters} : CallExpected(k, n)
    \/ \E k \in 0..MaxFlips, n \in 0..MaxIter : CallRun(k, n)
    \/ \E k \in OverflowFlips, n \in OverflowIters : CallRun(k, n)
    \/ BeginTrial
    \/ \E b \in BOOLEAN : Flip(b)
    \/ Tally
    \/ Convert
    \/ Return

Spec == Init /\ [][Next]_vars

\* ------------------------------------------------------------ references
RECURSIVE nested_loops(_)
\* the outcomes pushed by n nested `for c in [Heads, Tails]` loops, the
\* outermost loop giving the first symbol
nested_loops(n) ==
    IF n = 0 THEN << <<>> >>
    ELSE LET inner == nested_loops(n - 1)
         IN  [x \in 1..Len(inner) |-> <<to_string("Heads")>> \o inner[x]]
             \o [x \in 1..Len(inner) |-> <<to_string("Tails")>> \o inner[x]]

\* the call has ended, with a value or a panic
Ended == pc \in {"done", "panic"}

\* 2^flips_per_iteration fits a usize
Representable == flips_per_iteration < UsizeBits

\* ---------------------------------------------------------------- claims
\* C1: for every representable k, get_all_outcomes(k) returns exactly 2^k
\* strings over {H, T}, each of length k, pairwise distinct, in strictly
\* ascending lexicographic order, the same sequence as k nested
\* Heads-then-Tails loops; for k = 3 it is HHH, HHT, HTH, HTT, THH, THT,
\* TTH, TTT.
C1_AllOutcomes ==
    (op = "get_all_outcomes" /\ Ended /\ Representable) =>
        /\ pc = "done"
        /\ Len(outcomes) = Pow2(flips_per_iteration)
        /\ \A x \in DOMAIN outcomes :
              /\ Len(outcomes[x]) = flips_per_iteration
              /\ \A y \in DOMAIN outcomes[x] : outcomes[x][y] \in {"H", "T"}
        /\ \A x, y \in DOMAIN outcomes :
              x < y => /\ outcomes[x] # outcomes[y]
                       /\ str_less(outcomes[x], outcomes[y])
        /\ outcomes = nested_loops(flips_per_iteration)
        /\ flips_per_iteration = 3 =>
              outcomes = << <<"H", "H", "H">>, <<"H", "H", "T">>,
                            <<"H", "T", "H">>, <<"H", "T", "T">>,
                            <<"T", "H", "H">>, <<"T", "H", "T">>,
                            <<"T", "T", "H">>, <<"T", "T", "T">> >>

\* C1 witness: get_all_outcomes(MaxEnumFlips) has returned its vector
C1_Witness ==
    /\ op = "get_all_outcomes"
    /\ pc = "done"
    /\ flips_per_iteration = MaxEnumFlips
    /\ Len(outcomes) > 1

\* C2: when run returns, the counts of its results sum to iterations,
\* whatever the coins drew.
C2_CountsSumToIterations ==
    (op = "run" /\ pc = "done") =>
        sum_counts(converted, DOMAIN converted) = iterations

\* C2 witness: a finished run in which one outcome was drawn more than once
\* and another was drawn too
C2_Witness ==
    /\ op = "run"
    /\ pc = "done"
    /\ flips_per_iteration > 0
    /\ \E o, q \in DOMAIN converted :
          o # q /\ converted[o].count > 1 /\ converted[q].count > 0

\* C3: when run returns, the keys of results in the map's iteration order
\* are exactly the sequence get_all_outcomes(k): never-observed outcomes are
\* present with count 0, and the order is ascending.
C3_KeysAreAllOutcomes ==
    (op = "run" /\ pc = "done") =>
        /\ iteration_order(converted, outcomes)
        /\ iteration_order(converted, nested_loops(flips_per_iteration))

\* C3 witness: a finished run with trials in which some outcome was never
\* drawn
C3_Witness ==
    /\ op = "run"
    /\ pc = "done"
    /\ iterations > 0
    /\ Len(outcomes) > 1
    /\ \E o \in DOMAIN converted : converted[o].count = 0

\* C4: for valid k and iterations, expected.count is the floor of
\* iterations / 2^k and expected.probability is expected.count / iterations,
\* whatever the coins drew; for (3, 8000) they are 1000 and 0.125.
C4_Expected ==
    (op \in {"run", "expected"} /\ pc = "done" /\ Representable
       /\ iterations > 0) =>
        /\ expected.count = iterations \div Pow2(flips_per_iteration)
        /\ expected.probability.kind = "num"
        /\ expected.probability.num * iterations
              = expected.count * expected.probability.den
        /\ (flips_per_iteration = DocFlips /\ iterations = DocIters) =>
              /\ expected.count = 1000
              /\ expected.probability = [kind |-> "num", num |-> 1, den |-> 8]

\* C4 witness: a finished run whose iterations 2^k does not divide, with a
\* positive expected count
C4_Witness ==
    /\ op = "run"
    /\ pc = "done"
    /\ expected.count > 0
    /\ expected.count * Pow2(flips_per_iteration) < iterations

\* C5: run(k, 0) fails and returns no CoinFlipResult.
C5_ZeroIterationsRejected ==
    (op = "run" /\ iterations = 0) => pc # "done"

\* C6: when 2^k does not fit a usize, get_num_outcomes, get_all_outcomes and
\* run end in an overflow panic and return nothing.
C6_OverflowReported ==
    (op \in {"get_num_outcomes", "get_all_outcomes", "run"}
       /\ ~Representable /\ pc # "idle") =>
        (pc = "panic" /\ panic = "overflow")

\* C7: get_all_outcomes(0) returns exactly the empty string, and run(0, N)
\* with N > 0 succeeds with the one entry "" of count N and probability 1.0
\* and with expected.count = N.
C7_ZeroFlips ==
    /\ (op = "get_all_outcomes" /\ Ended /\ flips_per_iteration = 0) =>
          (pc = "done" /\ outcomes = << <<>> >>)
    /\ (op = "run" /\ flips_per_iteration = 0 /\ iterations > 0) =>
          /\ pc # "panic"
          /\ pc = "done" =>
                /\ DOMAIN converted = { <<>> }
                /\ converted[<<>>].count = iterations
                /\ converted[<<>>].probability
                      = [kind |-> "num", num |-> 1, den |-> 1]
                /\ expected.count = iterations

\* C7 witness: run(0, MaxIter) has returned
C7_Witness ==
    /\ op = "run"
    /\ pc = "done"
    /\ flips_per_iteration = 0
    /\ iterations = MaxIter
    /\ MaxIter > 0

\* C8: in get_all_outcomes(k), symbol j of outcome i is H if
\* floor(i / 2^(k-j)) is even and T otherwise, and distinct indices give
\* distinct outcomes.
C8_BinaryCounting ==
    (op = "get_all_outcomes" /\ pc = "done" /\ Representable) =>
        /\ DOMAIN outcomes = 1..Pow2(flips_per_iteration)
        /\ \A x \in 0..(Pow2(flips_per_iteration) - 1) :
              /\ DOMAIN outcomes[x + 1] = 1..flips_per_iteration
              /\ \A y \in 1..flips_per_iteration :
                    outcomes[x + 1][y] =
                        IF (x \div Pow2(flips_per_iteration - y)) % 2 = 0
                        THEN "H" ELSE "T"
        /\ \A x, y \in DOMAIN outcomes :
              outcomes[x] = outcomes[y] => x = y

\* C8 witness: get_all_outcomes has returned both an outcome that begins
\* with T and ends with H and one that begins with H and ends with T
C8_Witness ==
    /\ op = "get_all_outcomes"
    /\ pc = "done"
    /\ Representable
    /\ flips_per_iteration > 1
    /\ \E x, y \in DOMAIN outcomes :
          /\ Head(outcomes[x]) = "T"
          /\ outcomes[x][flips_per_iteration] = "H"
          /\ Head(outcomes[y]) = "H"
          /\ outcomes[y][flips_per_iteration] = "T"

\* C9: run ends either after exactly `iterations` trials of k draws each,
\* or with a failure before any trial or draw.
C9_AllOrNothing ==
    op = "run" =>
        /\ pc = "done" =>
              (t = iterations /\ draws = flips_per_iteration * iterations)
        /\ pc = "panic" => (t = 0 /\ draws = 0)

\* C10: a trial raises the count of the drawn outcome by exactly 1 and
\* leaves the other counts and the set of keys unchanged: the drawn string
\* is already a key.
C10_TallyFrame ==
    [][(pc = "flipping" /\ pc' = "trials") =>
          /\ flips \in DOMAIN results
          /\ DOMAIN results' = DOMAIN results
          /\ results'[flips] = results[flips] + 1
          /\ \A o \in DOMAIN results \ {flips} : results'[o] = results[o]]_vars
====
